---------------------------- MODULE Spec2Model ----------------------------
(***************************************************************************)
(* TeachWell: the screen flow of App.tsx (screens, upload and generation,  *)
(* study lounge, reset, the Legacy Journal and its localStorage copy) and  *)
(* the mission handbook of ActivityCard (steps, photo, completion).        *)
(*                                                                         *)
(* React state is one variable per useState cell.  An event handler runs   *)
(* to completion, so one action is one handler (or one continuation of an  *)
(* async handler after an await).  Requests to the generation service and  *)
(* FileReader reads are in flight between two actions.                     *)
(***************************************************************************)
EXTENDS Naturals, Sequences, FiniteSets

(***************************************************************************)
(* Bounds of the model.                                                    *)
(***************************************************************************)
\* uploads whose read or generation request may be in flight at once
MaxInFlight == 2
\* missions completed in one session of the app
MaxMissions == 1
\* runs of the step-image loop a card starts
MaxImageRuns == 2
\* suggestMaterialAlternative requests of a card in flight at once
MaxSwapRequests == 2
\* camera timers, getUserMedia requests and live streams of a card
MaxStreams == 2
\* length of the duration texts tried
MaxDurationLen == 3

(***************************************************************************)
(* Values.                                                                 *)
(***************************************************************************)
\* null of a string-valued cell (error, selectedPath, successPhoto, photoUrl)
NULL == "null"

\* studySession = null
NoSession == [absent |-> TRUE]

L(o, e) == [original |-> o, english |-> e]

\* the focus label the user picks on WELCOME (the screen also offers
\* "Wellness Exploration"; the label only travels to the service)
Paths == {"Curriculum Mastery"}

\* A duration is text: a sequence of characters.
Digits == <<"0", "1", "2", "3", "4", "5", "6", "7", "8", "9">>

IsDigit(c) == \E d \in 1..10 : Digits[d] = c

DigitValue(c) == (CHOOSE d \in 1..10 : Digits[d] = c) - 1

\* Sample activities a generation response may hold.  They carry no prompt
\* and no material: step images, material alternatives, narration and the
\* camera stream are followed in the handbook specifications below.
ActA ==
  [ title |-> L("Fracciones", "Fractions"),
    topic |-> L("Matematicas", "Math"),
    duration |-> L(<<"1", "5", "-", "2", "0">>, <<"a", "4", "5", "m">>),
    materials |-> L(<<>>, <<>>),
    instructions |-> L(<<"paso 1">>, <<"step 1">>),
    stepImagePrompts |-> <<>> ]

ActB ==
  [ title |-> L("Plantas", "Plants"),
    topic |-> L("Ciencia", "Science"),
    duration |-> L(<<"q">>, <<"q">>),
    materials |-> L(<<>>, <<>>),
    instructions |-> L(<<>>, <<>>),
    stepImagePrompts |-> <<>> ]

\* Activities for the handbook.  The response schema asks for the two lists
\* of instructions but relates neither their lengths nor the number of
\* prompts, so the samples have lists of equal and of different lengths.
StepTexts == <<"step 1", "step 2", "step 3">>

PasoTexts == <<"paso 1", "paso 2", "paso 3">>

PromptTexts == <<"prompt 1", "prompt 2", "prompt 3">>

\* an activity with o original and e english instructions, n prompts, the
\* materials and the duration text given
Mission(o, e, n, materials, duration) ==
  [ title |-> L("Mision", "Mission"),
    topic |-> L("Tema", "Topic"),
    duration |-> L(duration, <<"1", "0", "m">>),
    materials |-> materials,
    instructions |-> L(SubSeq(PasoTexts, 1, o), SubSeq(StepTexts, 1, e)),
    stepImagePrompts |-> SubSeq(PromptTexts, 1, n) ]

\* the numbers of original and english instructions of the samples
StepShapes == {<<2, 2>>, <<1, 2>>, <<0, 2>>, <<0, 0>>}

StepActivities ==
  { Mission(shape[1], shape[2], 0, L(<<>>, <<>>), <<"5">>) : shape \in StepShapes }

\* three steps, a prompt for each
ImageActivity == Mission(3, 3, 3, L(<<>>, <<>>), <<"5">>)

\* two materials in each language, one of them under the same name
SwapActivity == Mission(1, 1, 0, L(<<"tijeras", "glue">>, <<"scissors", "glue">>), <<"5">>)

\* every material of the samples
Materials == {"tijeras", "scissors", "glue"}

\* what suggestMaterialAlternative resolves with: the answer of the service,
\* or the fallback phrase when the answer is empty
Suggestions == {"A kitchen knife", "A similar household item"}

\* Duration texts: every text of at most MaxDurationLen characters over a
\* zero, another digit and a letter, and the three texts of the handbook's
\* examples.
DurationChars == {"0", "4", "m"}

ExampleDurations ==
  { <<"A", "b", "o", "u", "t", " ", "1", "5", "-", "2", "0", " ",
      "m", "i", "n", "u", "t", "e", "s">>,
    <<"Q", "u", "i", "c", "k", " ", "a", "c", "t", "i", "v", "i", "t", "y">>,
    <<"4", "5", " ", "m", "i", "n", "s">> }

DurationTexts ==
  ExampleDurations \cup
    UNION { [1..n -> DurationChars] : n \in 0..MaxDurationLen }

DurationActivities ==
  { Mission(1, 1, 0, L(<<>>, <<>>), text) : text \in DurationTexts }


\* ActivityGenerationResponse values the service may answer with
Responses ==
  { [activities |-> <<ActA>>, overallTopics |-> <<"fractions">>],
    [activities |-> <<ActB>>, overallTopics |-> <<"plants", "light">>] }

\* the message of the Error generateActivitiesFromPdf rejects with; "" is an
\* error without a message
GenFailures == {"TeachWell engine failed to generate content.", ""}

BusyMessage == "The TeachWell engine is busy. Please try again."

ReadMessage == "Failed to read the file. Ensure it's a standard PDF."

StudyMessage == "Could not reach resources. Please check your internet."

\* a value of Math.random().toString(36).substr(2, 9)
Ids == {"k3j9x0q2w"}

\* a value of Date.now()
Timestamps == {1762000000}


(***************************************************************************)
(* finishMission's duration rule: content.duration.match(/\d+/) is the     *)
(* first maximal run of decimal digits, parseInt reads it in base 10, and  *)
(* the result is 15 when there is no digit.                                *)
(***************************************************************************)
\* position of the first digit of s at or after i, 0 when there is none
RECURSIVE FirstDigit(_, _)
FirstDigit(s, i) ==
  IF i > Len(s) THEN 0
  ELSE IF IsDigit(s[i]) THEN i
  ELSE FirstDigit(s, i + 1)

\* a match that stops at the first digit
RunEndAtOnce(s, i) == i

\* last position of the run of digits that starts at i
RECURSIVE RunEnd(_, _)
RunEnd(s, i) ==
  IF i < Len(s) /\ IsDigit(s[i + 1]) THEN RunEnd(s, i + 1) ELSE i

\* parseInt of the digits s[i..j], most significant first
RECURSIVE ParseInt(_, _, _)
ParseInt(s, i, j) ==
  IF j < i THEN 0
  ELSE 10 * ParseInt(s, i, j - 1) + DigitValue(s[j])

DefaultMinutes == 15

DurationMinutes(s) ==
  LET i == FirstDigit(s, 1)
  IN IF i = 0 THEN DefaultMinutes ELSE ParseInt(s, i, RunEnd(s, i))

(***************************************************************************)
(* JavaScript values and JSON text.  A value is an array of ImpactRecord   *)
(* objects or something that is no array; text is a sequence of tokens.    *)
(***************************************************************************)
JsArray(items) == [kind |-> "array", items |-> items]

JsOther(kind) == [kind |-> kind, items |-> <<>>]

Tok(t) == [t |-> t]

ObjTok(r) == [t |-> "object", v |-> r]

\* the elements of an array, encoded and joined by commas
RECURSIVE JoinItems(_)
JoinItems(items) ==
  IF items = <<>> THEN <<>>
  ELSE IF Len(items) = 1 THEN <<ObjTok(items[1])>>
  ELSE <<ObjTok(items[1]), Tok(",")>> \o JoinItems(Tail(items))

\* JSON.stringify(newRecords) of an array of records
Stringify(items) == <<Tok("[")>> \o JoinItems(items) \o <<Tok("]")>>

\* the tokens between the brackets are object, comma, object, ...
RECURSIVE WellFormedItems(_)
WellFormedItems(toks) ==
  IF toks = <<>> THEN TRUE
  ELSE /\ toks[1].t = "object"
       /\ \/ Len(toks) = 1
          \/ /\ Len(toks) >= 3
             /\ toks[2].t = ","
             /\ WellFormedItems(SubSeq(toks, 3, Len(toks)))

RECURSIVE ItemsOf(_)
ItemsOf(toks) ==
  IF toks = <<>> THEN <<>>
  ELSE <<toks[1].v>> \o
       (IF Len(toks) = 1 THEN <<>> ELSE ItemsOf(SubSeq(toks, 3, Len(toks))))

\* JSON.parse(saved): the value, or ok = FALSE for a SyntaxError
JsonParse(text) ==
  IF Len(text) = 1 /\ text[1].t \in {"null", "number", "object"}
    THEN [ok |-> TRUE, value |-> JsOther(text[1].t)]
  ELSE IF /\ Len(text) >= 2
          /\ text[1].t = "["
          /\ text[Len(text)].t = "]"
          /\ WellFormedItems(SubSeq(text, 2, Len(text) - 1))
    THEN [ok |-> TRUE, value |-> JsArray(ItemsOf(SubSeq(text, 2, Len(text) - 1)))]
  ELSE [ok |-> FALSE, value |-> JsOther("undefined")]

\* localStorage.getItem('teachwell_impact'): null when the key is absent
Absent == [present |-> FALSE, text |-> <<>>]

Item(text) == [present |-> TRUE, text |-> text]

\* a record of an earlier session
OldRecord ==
  [ activityTitle |-> "Old mission", topic |-> "Reading", photoUrl |-> NULL,
    durationMinutes |-> 30, id |-> "a1b2c", timestamp |-> 0 ]

\* what the browser may hold under the key when the app starts
InitialStored ==
  { Absent,
    Item(<<Tok("["), ObjTok(OldRecord)>>),
    Item(<<Tok("null")>>),
    Item(Stringify(<<OldRecord>>)) }

\* the journal the load effect leaves in impactRecords
LoadResult(saved) ==
  IF saved.present /\ saved.text # <<>>
    THEN LET p == JsonParse(saved.text)
         IN IF p.ok THEN p.value ELSE JsArray(<<>>)
    ELSE JsArray(<<>>)

(***************************************************************************)
(* State.                                                                  *)
(***************************************************************************)
VARIABLES
  mounted,          \* the first render and its load effect have run
  stored,           \* localStorage under 'teachwell_impact'
  activities, overallTopics, status, error, displayLanguage, appScreen,
  selectedPath, studySession, loadingStudy,
  impactRecords,    \* the value of the impactRecords cell
  jobs,             \* uploads in flight: FileReader reads, and requests
  studyPending,     \* getStudyMaterials requests in flight
  cards             \* the state of the ActivityCard of each activity shown

vars ==
  << mounted, stored, activities, overallTopics, status, error,
     displayLanguage, appScreen, selectedPath, studySession, loadingStudy,
     impactRecords, jobs, studyPending, cards >>

journalVars == << impactRecords, stored >>

uploadVars == << jobs >>

studyVars == << studySession, loadingStudy, studyPending >>

\* no upload in flight: no read pending, no generation request pending
NoJobs == [reading |-> 0, generating |-> 0]

\* The render computes totalMinutes with impactRecords.reduce, which throws
\* when the cell holds no array: the tree is gone and nothing runs any more.
Alive == mounted /\ impactRecords.kind = "array"

(***************************************************************************)
(* ActivityCard: its cells after the first render and the effect that      *)
(* sizes completedSteps.  An entry of completedSteps is "true", "false",   *)
(* "undefined", or "empty" for a hole of the array.  Beside the cells the  *)
(* card record holds what the card's handlers have in flight.              *)
(***************************************************************************)
\* isReading = null; a step is named by its position, index + 1
NoStep == 0

NewCard(activity) ==
  [ isExpanded |-> FALSE,
    mode |-> "PREP",
    completedSteps |->
      IF Len(activity.instructions.original) > 0
        THEN [p \in 1..Len(activity.instructions.original) |-> "false"]
        ELSE <<>>,
    successPhoto |-> NULL,
    showCamera |-> FALSE,
    stepImages |-> <<>>,
    loadingImages |-> FALSE,
    swaps |-> {},
    loadingSwap |-> NULL,
    isReading |-> NoStep,
    \* the suspended calls of startGuiding: each awaits the image of its
    \* prompt k and holds its local array images
    runs |-> <<>>,
    \* how often generateStepImage was called for each prompt
    asked |-> [p \in 1..Len(activity.stepImagePrompts) |-> 0],
    \* suggestMaterialAlternative requests in flight, for each material
    swapRequests |-> [item \in Materials |-> 0],
    \* generateSpeech requests in flight, buffer sources playing
    speech |-> [requests |-> 0, sources |-> 0],
    \* startCamera timers pending, getUserMedia requests pending, whether the
    \* video element shown holds a live stream, live streams held by nothing
    camera |-> [timers |-> 0, asking |-> 0, attached |-> FALSE, loose |-> 0] ]

\* the cards are rendered by the RESULTS block only
CardsShown(screen, st) == screen = "RESULTS" /\ st = "SUCCESS"

\* the cards after a render with this screen, status and activities: the
\* cards shown keep their state, cards that come to be shown start anew
\* (what an unmounted card had in flight goes on, but reaches no card)
RenderCards(screen, st, acts) ==
  IF CardsShown(screen, st)
    THEN IF CardsShown(appScreen, status)
           THEN cards
           ELSE [i \in 1..Len(acts) |-> NewCard(acts[i])]
    ELSE <<>>

(***************************************************************************)
(* App: start.                                                             *)
(***************************************************************************)
Init ==
  /\ mounted = FALSE
  /\ stored \in InitialStored
  /\ activities = <<>>
  /\ overallTopics = <<>>
  /\ status = "IDLE"
  /\ error = NULL
  /\ displayLanguage = "original"
  /\ appScreen = "WELCOME"
  /\ selectedPath = NULL
  /\ studySession = NoSession
  /\ loadingStudy = FALSE
  /\ impactRecords = JsArray(<<>>)
  /\ jobs = NoJobs
  /\ studyPending = {}
  /\ cards = <<>>

\* the load effect of the first render
Mount ==
  /\ ~mounted
  /\ mounted' = TRUE
  /\ impactRecords' = LoadResult(stored)
  /\ UNCHANGED << stored, activities, overallTopics, status, error,
                  displayLanguage, appScreen, selectedPath, studyVars,
                  uploadVars, cards >>

(***************************************************************************)
(* App: navigation.                                                        *)
(***************************************************************************)
\* a handler that only calls setAppScreen(screen)
SetAppScreen(screen) ==
  /\ appScreen' = screen
  /\ cards' = RenderCards(screen, status, activities)
  /\ UNCHANGED << mounted, activities, overallTopics, status, error,
                  displayLanguage, selectedPath, studyVars, journalVars,
                  uploadVars >>

HandleChoice(choice) ==
  /\ Alive
  /\ appScreen = "WELCOME"
  /\ selectedPath' = choice
  /\ appScreen' = "UPLOAD"
  /\ cards' = RenderCards("UPLOAD", status, activities)
  /\ UNCHANGED << mounted, activities, overallTopics, status, error,
                  displayLanguage, studyVars, journalVars, uploadVars >>

\* header and footer buttons, and the WELCOME screen's journal button
GoJournal ==
  /\ Alive
  /\ SetAppScreen("JOURNAL")

\* Return Home on JOURNAL, Back on UPLOAD
GoWelcome ==
  /\ Alive
  /\ appScreen \in {"JOURNAL", "UPLOAD"}
  /\ SetAppScreen("WELCOME")

LaunchMissions ==
  /\ Alive
  /\ appScreen = "CHOICE"
  /\ SetAppScreen("RESULTS")

\* onBack of StudyCorner, Return to Dashboard of RESULTS
BackToChoice ==
  /\ Alive
  /\ \/ appScreen = "STUDY" /\ studySession # NoSession
     \/ CardsShown(appScreen, status)
  /\ SetAppScreen("CHOICE")

SetDisplayLanguage(lang) ==
  /\ Alive
  /\ appScreen \in {"RESULTS", "CHOICE"}
  /\ displayLanguage' = lang
  /\ UNCHANGED << mounted, activities, overallTopics, status, error,
                  appScreen, selectedPath, studyVars, journalVars,
                  uploadVars, cards >>

DismissError ==
  /\ Alive
  /\ error # NULL
  /\ error' = NULL
  /\ UNCHANGED << mounted, activities, overallTopics, status,
                  displayLanguage, appScreen, selectedPath, studyVars,
                  journalVars, uploadVars, cards >>

\* reset without setStudySession(null)
resetKeepsSession ==
  /\ Alive
  /\ activities' = <<>>
  /\ overallTopics' = <<>>
  /\ status' = "IDLE"
  /\ error' = NULL
  /\ appScreen' = "WELCOME"
  /\ cards' = <<>>
  /\ UNCHANGED << mounted, displayLanguage, selectedPath, studyVars,
                  journalVars, uploadVars >>

\* reset without setAppScreen('WELCOME')
resetKeepsScreen ==
  /\ Alive
  /\ activities' = <<>>
  /\ overallTopics' = <<>>
  /\ studySession' = NoSession
  /\ status' = "IDLE"
  /\ error' = NULL
  /\ cards' = <<>>
  /\ UNCHANGED << mounted, displayLanguage, appScreen, selectedPath,
                  loadingStudy, studyPending, journalVars, uploadVars >>

\* the logo of the header and Engine Reset of the footer
reset ==
  /\ Alive
  /\ activities' = <<>>
  /\ overallTopics' = <<>>
  /\ studySession' = NoSession
  /\ status' = "IDLE"
  /\ error' = NULL
  /\ appScreen' = "WELCOME"
  /\ cards' = <<>>
  /\ UNCHANGED << mounted, displayLanguage, selectedPath, loadingStudy,
                  studyPending, journalVars, uploadVars >>

(***************************************************************************)
(* App: upload and generation (handleFileUpload).                          *)
(***************************************************************************)
InFlight == jobs.reading + jobs.generating

\* the change event of the file input without a file: the handler returns
UploadNoFile ==
  /\ Alive
  /\ appScreen = "UPLOAD"
  /\ UNCHANGED vars

\* the handler up to reader.readAsDataURL(file); the read is then in flight.
\* (The focus label the request will carry, selectedPath of this render,
\* changes nothing the service answers here and is not kept.)
UploadStartRead ==
  /\ Alive
  /\ appScreen = "UPLOAD"
  /\ InFlight < MaxInFlight
  /\ error' = NULL
  /\ status' = "READING_PDF"
  /\ appScreen' = "PROCESSING"
  /\ jobs' = [jobs EXCEPT !.reading = @ + 1]
  /\ cards' = <<>>
  /\ UNCHANGED << mounted, activities, overallTopics, displayLanguage,
                  selectedPath, studyVars, journalVars >>

\* the handler when the FileReader constructor or readAsDataURL throws:
\* the outer catch
UploadThrows ==
  /\ Alive
  /\ appScreen = "UPLOAD"
  /\ error' = ReadMessage
  /\ appScreen' = "WELCOME"
  /\ status' = "ERROR"
  /\ cards' = <<>>
  /\ UNCHANGED << mounted, activities, overallTopics, displayLanguage,
                  selectedPath, studyVars, journalVars, uploadVars >>

handleFileUpload == UploadNoFile \/ UploadStartRead \/ UploadThrows

\* reader.onload up to the await of generateActivitiesFromPdf
ReaderLoad ==
  /\ Alive
  /\ jobs.reading > 0
  /\ status' = "GENERATING"
  /\ jobs' = [jobs EXCEPT !.reading = @ - 1, !.generating = @ + 1]
  /\ cards' = RenderCards(appScreen, "GENERATING", activities)
  /\ UNCHANGED << mounted, activities, overallTopics, error, displayLanguage,
                  appScreen, selectedPath, studyVars, journalVars >>

\* the read fails: the reader fires its error event, which has no listener
ReaderError ==
  /\ Alive
  /\ jobs.reading > 0
  /\ jobs' = [jobs EXCEPT !.reading = @ - 1]
  /\ UNCHANGED << mounted, activities, overallTopics, status, error,
                  displayLanguage, appScreen, selectedPath, studyVars,
                  journalVars, cards >>

\* GenerateSuccess without setOverallTopics(response.overallTopics)
GenerateSuccessKeepsTopics(response) ==
  /\ Alive
  /\ jobs.generating > 0
  /\ activities' = response.activities
  /\ status' = "SUCCESS"
  /\ appScreen' = "CHOICE"
  /\ jobs' = [jobs EXCEPT !.generating = @ - 1]
  /\ cards' = <<>>
  /\ UNCHANGED << mounted, overallTopics, error, displayLanguage,
                  selectedPath, studyVars, journalVars >>

\* reader.onload after the await, the request fulfilled with response
GenerateSuccess(response) ==
  /\ Alive
  /\ jobs.generating > 0
  /\ activities' = response.activities
  /\ overallTopics' = response.overallTopics
  /\ status' = "SUCCESS"
  /\ appScreen' = "CHOICE"
  /\ jobs' = [jobs EXCEPT !.generating = @ - 1]
  /\ cards' = <<>>
  /\ UNCHANGED << mounted, error, displayLanguage, selectedPath, studyVars,
                  journalVars >>

\* GenerateFail with a catch that sends the user back to UPLOAD
GenerateFailToUpload(message) ==
  /\ Alive
  /\ jobs.generating > 0
  /\ error' = IF message # "" THEN message ELSE BusyMessage
  /\ appScreen' = "UPLOAD"
  /\ status' = "ERROR"
  /\ jobs' = [jobs EXCEPT !.generating = @ - 1]
  /\ cards' = <<>>
  /\ UNCHANGED << mounted, activities, overallTopics, displayLanguage,
                  selectedPath, studyVars, journalVars >>

\* reader.onload after the await, the request rejected with Error(message)
GenerateFail(message) ==
  /\ Alive
  /\ jobs.generating > 0
  /\ error' = IF message # "" THEN message ELSE BusyMessage
  /\ appScreen' = "WELCOME"
  /\ status' = "ERROR"
  /\ jobs' = [jobs EXCEPT !.generating = @ - 1]
  /\ cards' = <<>>
  /\ UNCHANGED << mounted, activities, overallTopics, displayLanguage,
                  selectedPath, studyVars, journalVars >>

(***************************************************************************)
(* App: the study lounge (startStudyCorner).                               *)
(***************************************************************************)
\* resources the grounded search may return
MaterialLists ==
  { <<[title |-> "Fractions explained", url |-> "https://youtube.com/f",
       type |-> "video"]>> }

\* the StudySession getStudyMaterials(topics) builds from the answer: the
\* points the service writes about the topics are stood for by the topics
SessionFor(topics, materials) == [summary |-> topics, materials |-> materials]

\* startStudyCorner without the studySession test
startStudyCornerRefetches ==
  /\ Alive
  /\ appScreen = "CHOICE"
  /\ ~loadingStudy
  /\ loadingStudy' = TRUE
  /\ studyPending' = studyPending \cup {[topics |-> overallTopics]}
  /\ UNCHANGED << mounted, activities, overallTopics, status, error,
                  displayLanguage, appScreen, selectedPath, studySession,
                  journalVars, uploadVars, cards >>

\* the handler up to the await; the button is disabled while loadingStudy
startStudyCorner ==
  /\ Alive
  /\ appScreen = "CHOICE"
  /\ ~loadingStudy
  /\ IF studySession # NoSession
       THEN /\ appScreen' = "STUDY"
            /\ UNCHANGED << loadingStudy, studyPending >>
       ELSE /\ loadingStudy' = TRUE
            /\ studyPending' = studyPending \cup {[topics |-> overallTopics]}
            /\ UNCHANGED appScreen
  /\ UNCHANGED << mounted, activities, overallTopics, status, error,
                  displayLanguage, selectedPath, studySession, journalVars,
                  uploadVars, cards >>

StudySuccess(q, materials) ==
  /\ Alive
  /\ q \in studyPending
  /\ studySession' = SessionFor(q.topics, materials)
  /\ appScreen' = "STUDY"
  /\ loadingStudy' = FALSE
  /\ studyPending' = studyPending \ {q}
  /\ cards' = <<>>
  /\ UNCHANGED << mounted, activities, overallTopics, status, error,
                  displayLanguage, selectedPath, journalVars, uploadVars >>

\* a catch block that also sends the user back to WELCOME
StudyFailToWelcome(q) ==
  /\ Alive
  /\ q \in studyPending
  /\ error' = StudyMessage
  /\ appScreen' = "WELCOME"
  /\ loadingStudy' = FALSE
  /\ studyPending' = studyPending \ {q}
  /\ cards' = <<>>
  /\ UNCHANGED << mounted, activities, overallTopics, status,
                  displayLanguage, selectedPath, studySession,
                  journalVars, uploadVars >>

\* getStudyMaterials rejects: the catch and finally blocks
StudyFail(q) ==
  /\ Alive
  /\ q \in studyPending
  /\ error' = StudyMessage
  /\ loadingStudy' = FALSE
  /\ studyPending' = studyPending \ {q}
  /\ UNCHANGED << mounted, activities, overallTopics, status,
                  displayLanguage, appScreen, selectedPath, studySession,
                  journalVars, uploadVars, cards >>

(***************************************************************************)
(* App: the journal (saveImpact, handleActivityComplete).                  *)
(***************************************************************************)
\* the missions of this session in a journal: OldRecord is of an earlier one
MissionsDone(items) == Cardinality({p \in 1..Len(items) : items[p] # OldRecord})

\* saveImpact that writes the impactRecords of the render to storage
saveImpactStale(newRecords) ==
  /\ impactRecords' = JsArray(newRecords)
  /\ stored' = Item(Stringify(impactRecords.items))

\* saveImpact that sets the state and leaves the storage as it is
saveImpactInMemory(newRecords) ==
  /\ impactRecords' = JsArray(newRecords)
  /\ stored' = stored

\* saveImpact(newRecords)
saveImpact(newRecords) ==
  /\ impactRecords' = JsArray(newRecords)
  /\ stored' = Item(Stringify(newRecords))

\* the record handleActivityComplete builds from the card's record
FullRecord(record, id, timestamp) ==
  [ activityTitle |-> record.activityTitle, topic |-> record.topic,
    photoUrl |-> record.photoUrl, durationMinutes |-> record.durationMinutes,
    id |-> id, timestamp |-> timestamp ]

\* handleActivityComplete that puts the new record behind the others
handleActivityCompleteAppends(record, id, timestamp) ==
  /\ saveImpact(impactRecords.items \o <<FullRecord(record, id, timestamp)>>)
  /\ appScreen' = "JOURNAL"

\* id is Math.random().toString(36).substr(2, 9), timestamp is Date.now()
handleActivityComplete(record, id, timestamp) ==
  /\ saveImpact(<<FullRecord(record, id, timestamp)>> \o impactRecords.items)
  /\ appScreen' = "JOURNAL"

(***************************************************************************)
(* ActivityCard.  Card i shows activities[i]; a step of the handbook is    *)
(* named by its position p = index + 1.                                    *)
(***************************************************************************)
\* the content object: the activity in the displayed language
Content(activity, lang) ==
  [ title |-> activity.title[lang], topic |-> activity.topic[lang],
    materials |-> activity.materials[lang],
    instructions |-> activity.instructions[lang],
    duration |-> activity.duration[lang] ]

CardIndexes == DOMAIN cards

\* completedSteps.length > 0 && completedSteps.every(s => s): every skips
\* the holes of the array
allDone(card) ==
  /\ Len(card.completedSteps) > 0
  /\ \A p \in 1..Len(card.completedSteps) :
       card.completedSteps[p] \in {"true", "empty"}

\* the handbook overlay is rendered
HandbookOpen(i) == Alive /\ i \in CardIndexes /\ cards[i].isExpanded

\* the guided steps are rendered
GuideShown(i) == HandbookOpen(i) /\ cards[i].mode = "GUIDE"

\* the panel rendered without the allDone test
PanelShownAnyway(i) == GuideShown(i)

\* the Legacy Achieved panel is rendered
PanelShown(i) == GuideShown(i) /\ allDone(cards[i])

\* the video element of the capture view is rendered: videoRef.current
VideoShown(card) ==
  card.isExpanded /\ card.mode = "GUIDE" /\ allDone(card) /\ card.showCamera

\* the render after a handler: a video element that is no longer rendered
\* is dropped with its srcObject, whose tracks nothing has stopped
Detach(card) ==
  IF card.camera.attached /\ ~VideoShown(card)
    THEN [card EXCEPT !.camera.attached = FALSE, !.camera.loose = @ + 1]
    ELSE card

\* a handler that changes only the cells of card i
SetCard(i, card) ==
  /\ cards' = [cards EXCEPT ![i] = Detach(card)]
  /\ UNCHANGED << mounted, activities, overallTopics, status, error,
                  displayLanguage, appScreen, selectedPath, studyVars,
                  journalVars, uploadVars >>

OpenHandbook(i) ==
  /\ Alive
  /\ i \in CardIndexes
  /\ SetCard(i, [cards[i] EXCEPT !.isExpanded = TRUE])

CloseHandbook(i) ==
  /\ HandbookOpen(i)
  /\ SetCard(i, [cards[i] EXCEPT !.isExpanded = FALSE])

SetModePrep(i) ==
  /\ HandbookOpen(i)
  /\ SetCard(i, [cards[i] EXCEPT !.mode = "PREP"])

\* !s of an entry
Negate(s) == IF s = "true" THEN "false" ELSE "true"

\* [...prev]: the copy holds undefined where prev has a hole
Spread(steps) ==
  [p \in 1..Len(steps) |-> IF steps[p] = "empty" THEN "undefined" ELSE steps[p]]

\* next[index] = !next[index] on the copy; writing past the end leaves holes
ToggledSteps(steps, p) ==
  LET next == Spread(steps)
  IN IF p <= Len(next)
       THEN [next EXCEPT ![p] = Negate(next[p])]
       ELSE [q \in 1..p |->
               IF q <= Len(next) THEN next[q]
               ELSE IF q < p THEN "empty" ELSE "true"]

toggleStep(i, p) ==
  /\ GuideShown(i)
  /\ p \in 1..Len(Content(activities[i], displayLanguage).instructions)
  /\ SetCard(i, [cards[i] EXCEPT
                   !.completedSteps = ToggledSteps(cards[i].completedSteps, p)])

(***************************************************************************)
(* ActivityCard: step images (startGuiding).                               *)
(***************************************************************************)
\* the image generateStepImage(prompt) resolves with
ImageOf(prompt) == prompt

\* startGuiding without the loadingImages test
startGuidingUnguarded(i) ==
  /\ HandbookOpen(i)
  /\ LET card == cards[i]
         prompts == activities[i].stepImagePrompts
     IN IF Len(card.stepImages) = 0 /\ Len(prompts) > 0
          THEN /\ card.asked[1] < MaxImageRuns
               /\ SetCard(i, [card EXCEPT
                                !.mode = "GUIDE",
                                !.loadingImages = TRUE,
                                !.runs = Append(@, [k |-> 1, images |-> <<>>]),
                                !.asked[1] = @ + 1])
          ELSE SetCard(i, [card EXCEPT !.mode = "GUIDE"])

\* startGuiding up to its first await.  With no prompt the loop is empty and
\* the finally block runs in the same handler.
startGuiding(i) ==
  /\ HandbookOpen(i)
  /\ LET card == cards[i]
         prompts == activities[i].stepImagePrompts
     IN IF Len(card.stepImages) = 0 /\ ~card.loadingImages /\ Len(prompts) > 0
          THEN /\ card.asked[1] < MaxImageRuns
               /\ SetCard(i, [card EXCEPT
                                !.mode = "GUIDE",
                                !.loadingImages = TRUE,
                                !.runs = Append(@, [k |-> 1, images |-> <<>>]),
                                !.asked[1] = @ + 1])
          ELSE SetCard(i, [card EXCEPT !.mode = "GUIDE"])

\* a sequence without its element r
RemoveAt(seq, r) == SubSeq(seq, 1, r - 1) \o SubSeq(seq, r + 1, Len(seq))

\* the loop of run r after the await of its prompt k, with the image or ""
\* pushed on images: the call for the next prompt, or the finally block
AfterImage(card, r, prompts, images) ==
  LET k == card.runs[r].k
  IN IF k < Len(prompts)
       THEN [card EXCEPT !.runs[r] = [k |-> k + 1, images |-> images],
                         !.asked[k + 1] = @ + 1]
       ELSE [card EXCEPT !.runs = RemoveAt(@, r),
                         !.loadingImages = FALSE]

\* a success that publishes the new image alone
ImageSuccessPublishesLast(i, r) ==
  /\ Alive
  /\ i \in CardIndexes
  /\ r \in DOMAIN cards[i].runs
  /\ LET prompts == activities[i].stepImagePrompts
         run == cards[i].runs[r]
         images == Append(run.images, ImageOf(prompts[run.k]))
     IN SetCard(i, [AfterImage(cards[i], r, prompts, images) EXCEPT
                      !.stepImages = <<ImageOf(prompts[run.k])>>])

\* generateStepImage resolves for run r: the image is pushed and the copy of
\* images published
ImageSuccess(i, r) ==
  /\ Alive
  /\ i \in CardIndexes
  /\ r \in DOMAIN cards[i].runs
  /\ LET prompts == activities[i].stepImagePrompts
         run == cards[i].runs[r]
         images == Append(run.images, ImageOf(prompts[run.k]))
     IN SetCard(i, [AfterImage(cards[i], r, prompts, images) EXCEPT
                      !.stepImages = images])

\* generateStepImage rejects for run r: "" is pushed, nothing is published
ImageFail(i, r) ==
  /\ Alive
  /\ i \in CardIndexes
  /\ r \in DOMAIN cards[i].runs
  /\ LET prompts == activities[i].stepImagePrompts
         run == cards[i].runs[r]
         images == Append(run.images, "")
     IN SetCard(i, AfterImage(cards[i], r, prompts, images))

(***************************************************************************)
(* ActivityCard: material alternatives (handleSwap).                       *)
(***************************************************************************)
\* swaps[item] is truthy: a suggestion is never the empty string
Resolved(card, item) == \E entry \in card.swaps : entry.item = item

\* requests of the card in flight
SwapsInFlight(card) ==
  LET RECURSIVE Sum(_)
      Sum(items) ==
        IF items = {} THEN 0
        ELSE LET item == CHOOSE x \in items : TRUE
             IN card.swapRequests[item] + Sum(items \ {item})
  IN Sum(Materials)

\* handleSwap without the swaps[item] test
handleSwapAgain(i, item) ==
  /\ HandbookOpen(i)
  /\ cards[i].mode = "PREP"
  /\ \E m \in DOMAIN Content(activities[i], displayLanguage).materials :
       Content(activities[i], displayLanguage).materials[m] = item
  /\ SwapsInFlight(cards[i]) < MaxSwapRequests
  /\ SetCard(i, [cards[i] EXCEPT !.loadingSwap = item,
                                 !.swapRequests[item] = @ + 1])

\* handleSwap(item) up to its await, from a button of the PREP checklist
handleSwap(i, item) ==
  /\ HandbookOpen(i)
  /\ cards[i].mode = "PREP"
  /\ \E m \in DOMAIN Content(activities[i], displayLanguage).materials :
       Content(activities[i], displayLanguage).materials[m] = item
  /\ IF Resolved(cards[i], item)
       THEN UNCHANGED vars
       ELSE /\ SwapsInFlight(cards[i]) < MaxSwapRequests
            /\ SetCard(i, [cards[i] EXCEPT !.loadingSwap = item,
                                           !.swapRequests[item] = @ + 1])

\* a map built from the swaps of the render that made the call, not from prev
WithSwapOnly(swaps, item, suggestion) ==
  {[item |-> item, suggestion |-> suggestion]}

\* setSwaps(prev => ({ ...prev, [item]: suggestion }))
WithSwap(swaps, item, suggestion) ==
  {entry \in swaps : entry.item # item}
    \cup {[item |-> item, suggestion |-> suggestion]}

\* suggestMaterialAlternative resolves: the entry, then the finally block
SwapResolve(i, item, suggestion) ==
  /\ Alive
  /\ i \in CardIndexes
  /\ cards[i].swapRequests[item] > 0
  /\ SetCard(i, [cards[i] EXCEPT
                   !.swaps = WithSwap(@, item, suggestion),
                   !.loadingSwap = NULL,
                   !.swapRequests[item] = @ - 1])

\* suggestMaterialAlternative rejects: the finally block only
SwapReject(i, item) ==
  /\ Alive
  /\ i \in CardIndexes
  /\ cards[i].swapRequests[item] > 0
  /\ SetCard(i, [cards[i] EXCEPT !.loadingSwap = NULL,
                                 !.swapRequests[item] = @ - 1])

(***************************************************************************)
(* ActivityCard: narration (playNarration).                                *)
(***************************************************************************)
\* playNarration without the isReading test
playNarrationUnguarded(i, p) ==
  /\ GuideShown(i)
  /\ p \in 1..Len(Content(activities[i], displayLanguage).instructions)
  /\ cards[i].speech.requests + cards[i].speech.sources < 2
  /\ SetCard(i, [cards[i] EXCEPT !.isReading = p,
                                 !.speech.requests = @ + 1])

\* playNarration(step, index) up to the await of generateSpeech, from the
\* button of a step of the guide
playNarration(i, p) ==
  /\ GuideShown(i)
  /\ p \in 1..Len(Content(activities[i], displayLanguage).instructions)
  /\ IF cards[i].isReading # NoStep
       THEN UNCHANGED vars
       ELSE SetCard(i, [cards[i] EXCEPT !.isReading = p,
                                        !.speech.requests = @ + 1])

\* generateSpeech resolves and the audio decodes: source.start()
SpeechReady(i) ==
  /\ Alive
  /\ i \in CardIndexes
  /\ cards[i].speech.requests > 0
  /\ SetCard(i, [cards[i] EXCEPT !.speech.requests = @ - 1,
                                 !.speech.sources = @ + 1])

\* a catch block that only logs
SpeechFailKeepsMarker(i) ==
  /\ Alive
  /\ i \in CardIndexes
  /\ cards[i].speech.requests > 0
  /\ SetCard(i, [cards[i] EXCEPT !.speech.requests = @ - 1])

\* generateSpeech rejects, or decoding throws: the catch block
SpeechFail(i) ==
  /\ Alive
  /\ i \in CardIndexes
  /\ cards[i].speech.requests > 0
  /\ SetCard(i, [cards[i] EXCEPT !.speech.requests = @ - 1,
                                 !.isReading = NoStep])

\* source.onended
PlaybackEnds(i) ==
  /\ Alive
  /\ i \in CardIndexes
  /\ cards[i].speech.sources > 0
  /\ SetCard(i, [cards[i] EXCEPT !.speech.sources = @ - 1,
                                 !.isReading = NoStep])

(***************************************************************************)
(* ActivityCard: the photo (startCamera, takePhoto).                       *)
(***************************************************************************)
\* the still the canvas gives
Photo == "data:image/png;base64,selfie"

\* streams of the card whose tracks are live
LiveStreams(card) ==
  card.camera.loose + (IF card.camera.attached THEN 1 ELSE 0)

\* the Capture Legacy Photo button: setShowCamera(true), with the record
\* camera of what startCamera then has in flight
ShowCapture(i, camera) ==
  /\ PanelShown(i)
  /\ cards[i].successPhoto = NULL
  /\ ~cards[i].showCamera
  /\ SetCard(i, [cards[i] EXCEPT !.showCamera = TRUE, !.camera = camera])

\* startCamera: the capture view is shown and the timer set
startCamera(i) ==
  /\ cards[i].camera.timers + cards[i].camera.asking + LiveStreams(cards[i])
       < MaxStreams
  /\ ShowCapture(i, [cards[i].camera EXCEPT !.timers = @ + 1])

\* startCamera in the screen flow, which follows the cells of the card and
\* not the timer and the stream
CaptureOpens(i) == ShowCapture(i, cards[i].camera)

\* in the screen flow: the catch block of startCamera closes the capture
\* view, whatever the card shows by then
CaptureFails(i) ==
  /\ Alive
  /\ i \in CardIndexes
  /\ cards[i].showCamera
  /\ SetCard(i, [cards[i] EXCEPT !.showCamera = FALSE])

\* the timer of startCamera: getUserMedia is called if the video is there
CameraTimer(i) ==
  /\ Alive
  /\ i \in CardIndexes
  /\ cards[i].camera.timers > 0
  /\ SetCard(i, [cards[i] EXCEPT
                   !.camera.timers = @ - 1,
                   !.camera.asking =
                     IF VideoShown(cards[i]) THEN @ + 1 ELSE @])

\* getUserMedia resolves with a stream: it becomes the srcObject of the
\* video; without a video the assignment throws and the catch block runs
CameraGranted(i) ==
  /\ Alive
  /\ i \in CardIndexes
  /\ cards[i].camera.asking > 0
  /\ IF VideoShown(cards[i])
       THEN SetCard(i, [cards[i] EXCEPT
                          !.camera.asking = @ - 1,
                          !.camera.loose =
                            IF cards[i].camera.attached THEN @ + 1 ELSE @,
                          !.camera.attached = TRUE])
       ELSE SetCard(i, [cards[i] EXCEPT
                          !.camera.asking = @ - 1,
                          !.camera.loose = @ + 1,
                          !.showCamera = FALSE])

\* getUserMedia rejects: the alert, and the capture view is closed
CameraRefused(i) ==
  /\ Alive
  /\ i \in CardIndexes
  /\ cards[i].camera.asking > 0
  /\ SetCard(i, [cards[i] EXCEPT !.camera.asking = @ - 1,
                                 !.showCamera = FALSE])

\* takePhoto: the still, and the tracks of the video's stream are stopped
takePhoto(i) ==
  /\ PanelShown(i)
  /\ cards[i].showCamera
  /\ SetCard(i, [cards[i] EXCEPT !.successPhoto = Photo,
                                 !.camera.attached = FALSE,
                                 !.showCamera = FALSE])

\* the dismiss button of the capture view: setShowCamera(false)
CloseCamera(i) ==
  /\ PanelShown(i)
  /\ cards[i].showCamera
  /\ SetCard(i, [cards[i] EXCEPT !.showCamera = FALSE])

\* the retake button
ClearPhoto(i) ==
  /\ PanelShown(i)
  /\ cards[i].successPhoto # NULL
  /\ ~cards[i].showCamera
  /\ SetCard(i, [cards[i] EXCEPT !.successPhoto = NULL])

(***************************************************************************)
(* ActivityCard: completion (finishMission).                               *)
(***************************************************************************)
\* finishMission reading the activity's original text whatever is displayed
MissionRecordOriginal(i) ==
  LET content == Content(activities[i], "original")
  IN [ activityTitle |-> content.title, topic |-> content.topic,
       photoUrl |-> cards[i].successPhoto,
       durationMinutes |-> DurationMinutes(content.duration) ]

\* the record finishMission hands to onComplete
MissionRecord(i) ==
  LET content == Content(activities[i], displayLanguage)
  IN [ activityTitle |-> content.title, topic |-> content.topic,
       photoUrl |-> cards[i].successPhoto,
       durationMinutes |-> DurationMinutes(content.duration) ]

\* both finish buttons are inside the Legacy Achieved panel, beside the
\* capture view
FinishShown(i) == PanelShown(i) /\ ~cards[i].showCamera

\* finishMission, with the handleActivityComplete it calls; the screen
\* leaves RESULTS, so the cards are gone
finishMission(i, id, timestamp) ==
  /\ FinishShown(i)
  /\ MissionsDone(impactRecords.items) < MaxMissions
  /\ handleActivityComplete(MissionRecord(i), id, timestamp)
  /\ cards' = <<>>
  /\ UNCHANGED << mounted, activities, overallTopics, status, error,
                  displayLanguage, selectedPath, studyVars, uploadVars >>

(***************************************************************************)
(* The program.                                                            *)
(***************************************************************************)
Next ==
  \/ Mount
  \/ \E choice \in Paths : HandleChoice(choice)
  \/ GoJournal
  \/ GoWelcome
  \/ LaunchMissions
  \/ BackToChoice
  \/ \E lang \in {"original", "english"} : SetDisplayLanguage(lang)
  \/ DismissError
  \/ reset
  \/ handleFileUpload
  \/ ReaderLoad
  \/ ReaderError
  \/ \E response \in Responses : GenerateSuccess(response)
  \/ \E message \in GenFailures : GenerateFail(message)
  \/ startStudyCorner
  \/ \E q \in studyPending, materials \in MaterialLists : StudySuccess(q, materials)
  \/ \E q \in studyPending : StudyFail(q)
  \/ \E i \in CardIndexes : OpenHandbook(i)
  \/ \E i \in CardIndexes : CloseHandbook(i)
  \/ \E i \in CardIndexes : SetModePrep(i)
  \/ \E i \in CardIndexes : startGuiding(i)
  \/ \E i \in CardIndexes :
       \E p \in 1..Len(activities[i].instructions[displayLanguage]) : toggleStep(i, p)
  \/ \E i \in CardIndexes : CaptureOpens(i)
  \/ \E i \in CardIndexes : CaptureFails(i)
  \/ \E i \in CardIndexes : takePhoto(i)
  \/ \E i \in CardIndexes : CloseCamera(i)
  \/ \E i \in CardIndexes : ClearPhoto(i)
  \/ \E i \in CardIndexes, id \in Ids, timestamp \in Timestamps :
       finishMission(i, id, timestamp)

Spec == Init /\ [][Next]_vars

(***************************************************************************)
(* The handbook of one mission.  The app has answered an upload with one   *)
(* activity and shows its card on RESULTS.  Each specification follows one *)
(* part of the card: the cells that part reads are written only by its own *)
(* handlers and by those of HandbookNext, so the steps left out of a       *)
(* specification change nothing its handlers see.                          *)
(***************************************************************************)
\* the app on RESULTS with one activity of sample, its card just rendered
CardStart(sample) ==
  /\ mounted = TRUE
  /\ stored = Absent
  /\ activities \in {<<activity>> : activity \in sample}
  /\ overallTopics = <<"topic">>
  /\ status = "SUCCESS"
  /\ error = NULL
  /\ displayLanguage = "original"
  /\ appScreen = "RESULTS"
  /\ selectedPath = "Curriculum Mastery"
  /\ studySession = NoSession
  /\ loadingStudy = FALSE
  /\ impactRecords = JsArray(<<>>)
  /\ jobs = NoJobs
  /\ studyPending = {}
  /\ cards = [i \in 1..Len(activities) |-> NewCard(activities[i])]

\* leaving and re-entering RESULTS, the language, the handbook and its mode
HandbookNext ==
  \/ LaunchMissions
  \/ BackToChoice
  \/ \E lang \in {"original", "english"} : SetDisplayLanguage(lang)
  \/ \E i \in CardIndexes : OpenHandbook(i)
  \/ \E i \in CardIndexes : CloseHandbook(i)
  \/ \E i \in CardIndexes : SetModePrep(i)
  \/ \E i \in CardIndexes : startGuiding(i)

\* the steps of the guide
StepsInit == CardStart(StepActivities)

StepsNext ==
  \/ HandbookNext
  \/ \E i \in CardIndexes :
       \E p \in 1..Len(activities[i].instructions[displayLanguage]) : toggleStep(i, p)
  \/ \E i \in CardIndexes, id \in Ids, timestamp \in Timestamps :
       finishMission(i, id, timestamp)

StepsSpec == StepsInit /\ [][StepsNext]_vars

\* completion with the duration texts
DurationInit == CardStart(DurationActivities)

DurationSpec == DurationInit /\ [][StepsNext]_vars

\* the step images
ImageInit == CardStart({ImageActivity})

ImageNext ==
  \/ HandbookNext
  \/ \E i \in CardIndexes : \E r \in DOMAIN cards[i].runs : ImageSuccess(i, r)
  \/ \E i \in CardIndexes : \E r \in DOMAIN cards[i].runs : ImageFail(i, r)

ImageSpec == ImageInit /\ [][ImageNext]_vars

\* the material alternatives
SwapInit == CardStart({SwapActivity})

SwapNext ==
  \/ HandbookNext
  \/ \E i \in CardIndexes, item \in Materials : handleSwap(i, item)
  \/ \E i \in CardIndexes, item \in Materials, suggestion \in Suggestions :
       SwapResolve(i, item, suggestion)
  \/ \E i \in CardIndexes, item \in Materials : SwapReject(i, item)

SwapSpec == SwapInit /\ [][SwapNext]_vars

\* narration
NarrationInit == CardStart(StepActivities)

NarrationNext ==
  \/ HandbookNext
  \/ \E i \in CardIndexes :
       \E p \in 1..Len(activities[i].instructions[displayLanguage]) : toggleStep(i, p)
  \/ \E i \in CardIndexes :
       \E p \in 1..Len(activities[i].instructions[displayLanguage]) : playNarration(i, p)
  \/ \E i \in CardIndexes : SpeechReady(i)
  \/ \E i \in CardIndexes : SpeechFail(i)
  \/ \E i \in CardIndexes : PlaybackEnds(i)

NarrationSpec == NarrationInit /\ [][NarrationNext]_vars

\* a speech request is answered and a playback ends
NarrationLive ==
  /\ NarrationSpec
  /\ WF_vars(\E i \in CardIndexes : SpeechReady(i) \/ SpeechFail(i))
  /\ WF_vars(\E i \in CardIndexes : PlaybackEnds(i))

\* the photo and the camera
CameraInit == CardStart({Mission(1, 1, 0, L(<<>>, <<>>), <<"5">>)})

CameraNext ==
  \/ HandbookNext
  \/ \E i \in CardIndexes :
       \E p \in 1..Len(activities[i].instructions[displayLanguage]) : toggleStep(i, p)
  \/ \E i \in CardIndexes : startCamera(i)
  \/ \E i \in CardIndexes : CameraTimer(i)
  \/ \E i \in CardIndexes : CameraGranted(i)
  \/ \E i \in CardIndexes : CameraRefused(i)
  \/ \E i \in CardIndexes : takePhoto(i)
  \/ \E i \in CardIndexes : CloseCamera(i)
  \/ \E i \in CardIndexes : ClearPhoto(i)
  \/ \E i \in CardIndexes, id \in Ids, timestamp \in Timestamps :
       finishMission(i, id, timestamp)

CameraSpec == CameraInit /\ [][CameraNext]_vars

(***************************************************************************)
(* Properties.                                                             *)
(***************************************************************************)

\* C1: From WELCOME, choosing a path, then selecting a file, then a failing
\* generation call leaves the app exactly on WELCOME with a non-null error
\* message set and the status ERROR: every step in which a generation request
\* is rejected ends there, whatever the message of the rejection.
C1_FailedGenerationReturnsToWelcome ==
  [][ \A message \in GenFailures :
        GenerateFail(message) =>
          /\ appScreen' = "WELCOME"
          /\ error' # NULL
          /\ error' \in {message, BusyMessage}
          /\ status' = "ERROR" ]_vars

\* the first upload of a session has failed without a message: the app is on
\* WELCOME with the fallback message, nothing generated, nothing in flight
C1_Witness ==
  /\ appScreen = "WELCOME"
  /\ status = "ERROR"
  /\ error = BusyMessage
  /\ selectedPath \in Paths
  /\ activities = <<>>
  /\ jobs = NoJobs

\* C2: Whenever the file cannot be read or generation fails after the app has
\* entered PROCESSING, the app leaves PROCESSING for WELCOME with the banner
\* set; in particular the app is never on PROCESSING with no read and no
\* generation request pending.
C2_NeverIdleInProcessing ==
  appScreen = "PROCESSING" => InFlight > 0

\* C3: When the generation request succeeds, the screen becomes CHOICE, the
\* live activities and overallTopics are exactly the response's values, and
\* the status is SUCCESS.
C3_SuccessInstallsResponse ==
  [][ \A response \in Responses :
        GenerateSuccess(response) =>
          /\ appScreen' = "CHOICE"
          /\ activities' = response.activities
          /\ overallTopics' = response.overallTopics
          /\ status' = "SUCCESS" ]_vars

\* a second upload has replaced the topics of the first: the session was
\* prepared from one response and the live activities are another's
C3_Witness ==
  /\ appScreen = "CHOICE"
  /\ status = "SUCCESS"
  /\ activities = <<ActB>>
  /\ overallTopics = <<"plants", "light">>
  /\ studySession # NoSession
  /\ studySession.summary = <<"fractions">>

\* C4: At every moment at most one activity-generation request is
\* outstanding, also after reset or navigation away from PROCESSING followed
\* by a new upload.
C4_OneGenerationRequest ==
  jobs.generating <= 1

\* C5: reset, on any screen, sets the screen to WELCOME, empties activities
\* and overallTopics, sets studySession and error to null and status to IDLE,
\* and leaves the in-memory journal and the stored journal unchanged.
C5_ResetClearsSessionKeepsJournal ==
  [][ reset =>
        /\ appScreen' = "WELCOME"
        /\ activities' = <<>>
        /\ overallTopics' = <<>>
        /\ studySession' = NoSession
        /\ error' = NULL
        /\ status' = "IDLE"
        /\ impactRecords' = impactRecords
        /\ stored' = stored ]_vars

\* a mission of this session was recorded, and reset was pressed while a
\* study request was pending: the app is back at the start with the journal
\* in memory and in storage
C5_Witness ==
  /\ appScreen = "WELCOME"
  /\ status = "IDLE"
  /\ activities = <<>>
  /\ overallTopics = <<>>
  /\ studySession = NoSession
  /\ error = NULL
  /\ loadingStudy
  /\ MissionsDone(impactRecords.items) = 1
  /\ Len(impactRecords.items) = 2
  /\ stored = Item(Stringify(impactRecords.items))

C7_JournalGrowsAtHead ==
  [][ LET old == impactRecords.items
          new == impactRecords'.items
          kept == LoadResult(stored).items
          keeps == LoadResult(stored').items
      IN /\ mounted =>
              \/ new = old
              \/ Len(new) = Len(old) + 1 /\ Tail(new) = old
         /\ \/ keeps = kept
            \/ Len(keeps) = Len(kept) + 1 /\ Tail(keeps) = kept ]_vars

\* a record of an earlier session is still last after a completion, a reset
\* and an upload that followed
C7_Witness ==
  /\ Len(impactRecords.items) = 2
  /\ impactRecords.items[2] = OldRecord
  /\ impactRecords.items[1] # OldRecord
  /\ LoadResult(stored) = impactRecords
  /\ appScreen = "PROCESSING"
  /\ activities = <<>>

C9_LoadYieldsJournal ==
  mounted =>
    /\ impactRecords.kind = "array"
    /\ \/ /\ stored.present
          /\ JsonParse(stored.text).ok
          /\ JsonParse(stored.text).value.kind = "array"
       \/ impactRecords.items = <<>>

\* C10: completeMission is rejected (no ImpactRecord produced, journal
\* unchanged) in every state where allDone is false, with or without a
\* photo: once loaded, the journal changes only in a finishMission step of a
\* card whose allDone holds.
C10_NoCompletionUnlessAllDone ==
  [][ /\ \A i \in CardIndexes, id \in Ids, timestamp \in Timestamps :
           finishMission(i, id, timestamp) => allDone(cards[i])
      /\ (mounted /\ journalVars' # journalVars) =>
           \E i \in CardIndexes, id \in Ids, timestamp \in Timestamps :
             /\ finishMission(i, id, timestamp)
             /\ allDone(cards[i]) ]_vars

\* a photo was captured and a step then unchecked: the handbook is open on
\* the guide with a photo, allDone is false, and nothing was recorded
C10_Witness ==
  \E i \in CardIndexes :
    /\ GuideShown(i)
    /\ cards[i].successPhoto # NULL
    /\ ~allDone(cards[i])
    /\ ~FinishShown(i)
    /\ MissionsDone(impactRecords.items) = 0

(***************************************************************************)
(* The handbook: steps, duration, step images, narration, alternatives,    *)
(* camera.                                                                 *)
(***************************************************************************)
\* C11: allDone is true if and only if the completion sequence is non-empty
\* and every one of its elements is true; an activity with zero
\* instructions never has allDone true.
C11_AllDoneIffEveryStepTrue ==
  \A i \in CardIndexes :
    LET steps == cards[i].completedSteps
    IN /\ allDone(cards[i]) <=>
            /\ Len(steps) > 0
            /\ \A p \in 1..Len(steps) : steps[p] = "true"
       /\ ( /\ Len(activities[i].instructions.original) = 0
            /\ Len(activities[i].instructions.english) = 0 )
            => ~allDone(cards[i])

\* C12: toggleStep(i) flips only completedSteps[i], leaves every other
\* element and the length unchanged, and applied twice restores the
\* sequence it started from.
C12_ToggleFlipsOneEntry ==
  [][ \A i \in CardIndexes :
        \A p \in 1..Len(Content(activities[i], displayLanguage).instructions) :
          toggleStep(i, p) =>
            LET before == cards[i].completedSteps
                after == cards'[i].completedSteps
            IN /\ Len(after) = Len(before)
               /\ p \in 1..Len(before)
               /\ after[p] = Negate(before[p])
               /\ before[p] = Negate(after[p])
               /\ \A q \in 1..Len(before) : q # p => after[q] = before[q]
               /\ ToggledSteps(after, p) = before ]_vars

\* C13: durationMinutes of a completed mission is the integer value of the
\* first maximal run of decimal digits of the displayed duration string, and
\* 15 when the string has no digit: "About 15-20 minutes" gives 15, "Quick
\* activity" gives 15, "45 mins" gives 45.
C13_DurationIsFirstDigitRun ==
  [][ \A i \in CardIndexes, id \in Ids, timestamp \in Timestamps :
        finishMission(i, id, timestamp) =>
          LET s == Content(activities[i], displayLanguage).duration
              minutes == impactRecords'.items[1].durationMinutes
              digit(k) == IsDigit(s[k])
              RECURSIVE Pow10(_)
              Pow10(n) == IF n = 0 THEN 1 ELSE 10 * Pow10(n - 1)
              RECURSIVE Value(_, _)
              Value(a, b) ==
                IF a > b THEN 0
                ELSE DigitValue(s[a]) * Pow10(b - a) + Value(a + 1, b)
          IN /\ IF \A k \in 1..Len(s) : ~digit(k)
                  THEN minutes = 15
                  ELSE \E a \in 1..Len(s), b \in 1..Len(s) :
                         /\ a <= b
                         /\ \A k \in 1..(a - 1) : ~digit(k)
                         /\ \A k \in a..b : digit(k)
                         /\ b = Len(s) \/ ~digit(b + 1)
                         /\ minutes = Value(a, b)
             /\ s = <<"A", "b", "o", "u", "t", " ", "1", "5", "-", "2", "0", " ",
                    "m", "i", "n", "u", "t", "e", "s">>
                    => minutes = 15
             /\ s = <<"Q", "u", "i", "c", "k", " ", "a", "c", "t", "i", "v", "i", "t", "y">>
                    => minutes = 15
             /\ s = <<"4", "5", " ", "m", "i", "n", "s">> => minutes = 45 ]_vars

\* the mission whose displayed duration is "About 15-20 minutes" was
\* completed and its record in the journal has 15 minutes
C13_Witness ==
  /\ appScreen = "JOURNAL"
  /\ displayLanguage = "original"
  /\ activities # <<>>
  /\ activities[1].duration.original =
       <<"A", "b", "o", "u", "t", " ", "1", "5", "-", "2", "0", " ",
         "m", "i", "n", "u", "t", "e", "s">>
  /\ MissionsDone(impactRecords.items) = 1
  /\ impactRecords.items[1].durationMinutes = 15

\* C14: after the step images of an activity with n prompts have been
\* requested and the run has finished, the published image sequence has
\* length n whatever calls failed, with an empty placeholder at every failed
\* call and the image of its prompt at every successful one.
C14_PublishedImagePerPrompt ==
  \A i \in CardIndexes :
    LET card == cards[i]
        prompts == activities[i].stepImagePrompts
        n == Len(prompts)
    IN (n > 0 /\ card.asked[n] > 0 /\ card.runs = <<>>) =>
         /\ Len(card.stepImages) = n
         /\ \A p \in 1..n : card.stepImages[p] \in {"", ImageOf(prompts[p])}

\* C15: over any sequence of begin-mission and mode-switch actions of a
\* card, while a run is in flight and after it has finished, each prompt of
\* stepImagePrompts is requested at most once.
C15_EachPromptRequestedOnce ==
  \A i \in CardIndexes :
    \A p \in 1..Len(activities[i].stepImagePrompts) : cards[i].asked[p] <= 1

C18_MarkerEventuallyCleared ==
  (\E i \in CardIndexes : cards[i].isReading # NoStep)
    ~> (\A i \in CardIndexes : cards[i].isReading = NoStep)

\* step 1 is playing: its speech request was answered and the marker is
\* still set
C18_Witness ==
  \E i \in CardIndexes :
    /\ cards[i].isReading = 1
    /\ cards[i].speech = [requests |-> 0, sources |-> 1]

\* C19: a request for the alternative of an item that already has a
\* resolved suggestion issues no external call and leaves the suggestion map
\* and the loading token unchanged; with no request for the item in flight,
\* its suggestion stays what it is.
C19_SwapMemoized ==
  [][ \A i \in CardIndexes, item \in Materials :
        /\ (handleSwap(i, item) /\ Resolved(cards[i], item)) =>
             /\ cards'[i].swaps = cards[i].swaps
             /\ cards'[i].loadingSwap = cards[i].loadingSwap
             /\ cards'[i].swapRequests = cards[i].swapRequests
        /\ (i \in DOMAIN cards' /\ Resolved(cards[i], item)) =>
             /\ cards'[i].swapRequests[item] <= cards[i].swapRequests[item]
             /\ cards[i].swapRequests[item] = 0 =>
                  {e \in cards'[i].swaps : e.item = item}
                    = {e \in cards[i].swaps : e.item = item} ]_vars

\* the checklist is on screen with its swap buttons, glue has a resolved
\* suggestion and nothing is in flight
C19_Witness ==
  \E i \in CardIndexes :
    /\ HandbookOpen(i)
    /\ cards[i].mode = "PREP"
    /\ Resolved(cards[i], "glue")
    /\ SwapsInFlight(cards[i]) = 0
    /\ cards[i].loadingSwap = NULL

\* C20: the camera stream is released on every exit path of the capture
\* view (photo taken, view dismissed, also before the camera request
\* resolves, camera refused): in no state is the capture view closed while an
\* acquired stream is live.
C20_NoLiveStreamWhenClosed ==
  \A i \in CardIndexes :
    ~cards[i].showCamera => LiveStreams(cards[i]) = 0

(***************************************************************************)
(* The study lounge, late responses, the screens and the journal.          *)
(***************************************************************************)
\* C21: selecting prep on CHOICE creates the StudySession lazily: with no
\* StudySession exactly one request is made, from the current overallTopics,
\* and its success shows STUDY; with a StudySession the screen becomes STUDY
\* with no request; a StudySession, once there, is replaced by no later
\* fetch and removed only by reset.
C21_StudySessionLazyAndCached ==
  [][ /\ startStudyCorner =>
           IF studySession = NoSession
             THEN /\ studyPending = {}
                  /\ studyPending' = {[topics |-> overallTopics]}
                  /\ appScreen' = appScreen
                  /\ studySession' = NoSession
             ELSE /\ appScreen' = "STUDY"
                  /\ studyPending' = studyPending
                  /\ studySession' = studySession
      /\ \A q \in studyPending, materials \in MaterialLists :
           StudySuccess(q, materials) =>
             /\ studySession = NoSession
             /\ studySession' = SessionFor(q.topics, materials)
             /\ appScreen' = "STUDY"
      /\ Cardinality(studyPending') <= 1
      /\ (studySession # NoSession /\ studySession' # studySession) =>
           (reset /\ studySession' = NoSession) ]_vars

\* the study lounge is shown from the cached session a second time: the
\* session is there, nothing is loading or pending, and missions were
\* looked at in between
C21_Witness ==
  /\ appScreen = "STUDY"
  /\ studySession # NoSession
  /\ studySession.summary = overallTopics
  /\ studyPending = {}
  /\ ~loadingStudy
  /\ displayLanguage = "english"

\* C22: when fetchStudyMaterials fails the error banner is set, the screen
\* is not changed, the StudySession stays absent and the loading flag is
\* cleared, so that prep can be selected again.
C22_StudyFailureKeepsScreen ==
  [][ \A q \in studyPending :
        StudyFail(q) =>
          /\ error' = StudyMessage
          /\ appScreen' = appScreen
          /\ studySession = NoSession
          /\ studySession' = NoSession
          /\ loadingStudy
          /\ ~loadingStudy'
          /\ studyPending' = {}
          /\ activities' = activities /\ overallTopics' = overallTopics
          /\ status' = status ]_vars

\* the fetch failed on CHOICE: the banner is up, nothing is pending and the
\* prep button is enabled again
C22_Witness ==
  /\ appScreen = "CHOICE"
  /\ error = StudyMessage
  /\ studySession = NoSession
  /\ ~loadingStudy
  /\ studyPending = {}
  /\ overallTopics # <<>>

\* C23: lookups for different items may overlap, and in whatever order
\* their responses arrive every lookup that succeeds is recorded under its
\* own item: a response adds or replaces the entry of its item only, no
\* entry of another item is lost or changed, and an item has at most one
\* entry.
C23_SwapsIndependent ==
  [][ \A i \in CardIndexes :
        i \in DOMAIN cards' =>
          LET old == cards[i].swaps
              new == cards'[i].swaps
          IN /\ \A item \in Materials, suggestion \in Suggestions :
                  SwapResolve(i, item, suggestion) =>
                    /\ [item |-> item, suggestion |-> suggestion] \in new
                    /\ {e \in new : e.item # item} = {e \in old : e.item # item}
             /\ \A e \in old : \E f \in new : f.item = e.item
             /\ \A e \in new, f \in new : e.item = f.item => e = f ]_vars

\* scissors and glue were asked for together and both have their entry
C23_Witness ==
  \E i \in CardIndexes :
    /\ Resolved(cards[i], "scissors")
    /\ Resolved(cards[i], "glue")
    /\ Cardinality(cards[i].swaps) = 2
    /\ SwapsInFlight(cards[i]) = 0

\* C24: during step-image generation the published image sequence only
\* grows: after each success it is the list of the results obtained so far,
\* in prompt order, and every later published sequence extends it.
C24_PublishedImagesGrow ==
  [][ \A i \in CardIndexes :
        i \in DOMAIN cards' =>
          LET old == cards[i].stepImages
              new == cards'[i].stepImages
              prompts == activities[i].stepImagePrompts
          IN /\ Len(new) >= Len(old)
             /\ SubSeq(new, 1, Len(old)) = old
             /\ \A r \in DOMAIN cards[i].runs :
                  ImageSuccess(i, r) =>
                    LET k == cards[i].runs[r].k
                    IN /\ Len(new) = k
                       /\ new[k] = ImageOf(prompts[k])
                       /\ SubSeq(new, 1, k - 1) = cards[i].runs[r].images
                       /\ \A p \in 1..k : new[p] \in {"", ImageOf(prompts[p])} ]_vars

\* the run is over with the first and third image and a placeholder between
C24_Witness ==
  \E i \in CardIndexes :
    /\ Len(activities[i].stepImagePrompts) = 3
    /\ cards[i].stepImages =
         << ImageOf(activities[i].stepImagePrompts[1]), "",
            ImageOf(activities[i].stepImagePrompts[3]) >>
    /\ cards[i].runs = <<>>
    /\ ~cards[i].loadingImages

\* C25: a generation response, success or failure, that arrives after the
\* user has left PROCESSING by reset or navigation is discarded: a
\* generation outcome changes the screen only while the app is in
\* PROCESSING, and empty activities are filled only there.
C25_LateResponseDiscarded ==
  [][ /\ ( \/ \E response \in Responses : GenerateSuccess(response)
           \/ \E message \in GenFailures : GenerateFail(message) )
           => appScreen = "PROCESSING"
      /\ (activities = <<>> /\ activities' # <<>>)
           => appScreen = "PROCESSING" ]_vars

\* C26: in every state where the screen is STUDY a StudySession is
\* present, also when reset or navigation interleaves with a pending
\* fetchStudyMaterials request.
C26_StudyHasSession ==
  appScreen = "STUDY" => studySession # NoSession

\* reset came while the fetch was pending and the answer then opened the
\* study lounge: STUDY with its session over an emptied app
C26_Witness ==
  /\ appScreen = "STUDY"
  /\ studySession # NoSession
  /\ status = "IDLE"
  /\ activities = <<>>
  /\ overallTopics = <<>>

\* C27: in every state where the screen is RESULTS the status is SUCCESS
\* and the activities of the last successful generation are live, also when
\* reset interleaves with a pending request: RESULTS is never blank.
C27_ResultsNeverBlank ==
  appScreen = "RESULTS" =>
    /\ status = "SUCCESS"
    /\ activities # <<>>
    /\ Len(cards) = Len(activities)

\* C28: a live StudySession was fetched from the overallTopics that are
\* live now: after a new successful upload has replaced overallTopics,
\* selecting prep never shows a StudySession of the previous document.
C28_SessionOfLiveTopics ==
  studySession # NoSession => studySession.summary = overallTopics

C30_LoadingTokenWhilePending ==
  \A i \in CardIndexes :
    SwapsInFlight(cards[i]) > 0 =>
      /\ cards[i].loadingSwap \in Materials
      /\ cards[i].swapRequests[cards[i].loadingSwap] > 0

=============================================================================
